---- MODULE Spec2Model ----
(***************************************************************************)
(* The Trainer of dreamerv2 (src/dreamerv2/training/trainer.py).           *)
(*                                                                         *)
(* Spec      : one Trainer object: construction, train_batch statement by  *)
(*             statement, update_target and the unsupported entry points.  *)
(* SpecCkpt  : Spec together with get_save_dict and load_save_dict.        *)
(* SpecKL    : _kl_loss applied to bounded prior/posterior sequences, in   *)
(*             plain mode and under several balancing scales.              *)
(* SpecVL    : the value loss of actorcritc_loss (lines 196-202) applied   *)
(*             to bounded discount, target and prediction tensors.         *)
(* SpecSeed  : collect_seed_episodes against an environment whose          *)
(*             episodes end, under weak fairness of the running call.      *)
(*                                                                         *)
(* Abstractions.  A sub-model's parameters are one integer (a version of   *)
(* its weights: an optimizer step that moves them adds 1; fresh random     *)
(* initialisations are fixed numbers).  A tensor is a value together with  *)
(* its autograd information: deps, the sub-models whose parameters the     *)
(* backward pass of the tensor reaches, and used, the sub-models its       *)
(* forward computation went through.  A parameter's .grad is the set of    *)
(* losses whose backward pass accumulated into it, {} for a zero tensor    *)
(* and NoGrad for None.                                                    *)
(***************************************************************************)
EXTENDS Integers, Sequences, FiniteSets, TLC

\* ------------------------------------------------------------- bounds
MaxIntervals == 2
MaxTrainCalls == 2
MaxConstruct == 2
MaxSample == 1
MaxKLSteps == 2
MaxHorizon == 2
MaxSeeds == 2
MaxSeedEpisodes == 2
MaxEpisodeLen == 2

\* ------------------------------------------------------------ helpers
Range(s) == {s[j] : j \in DOMAIN s}

RECURSIVE Sum(_)
Sum(s) == IF s = <<>> THEN 0 ELSE s[1] + Sum(Tail(s))

IndexOf(s, x) == CHOOSE j \in DOMAIN s : s[j] = x

\* dict.__setitem__: d[k] = v
Put(d, k, v) == [x \in (DOMAIN d) \cup {k} |-> IF x = k THEN v ELSE d[x]]

EmptyDict == [x \in {} |-> 0]

\* ------------------------------------------------------- the sub-models
Modules ==
  {"ObsEncoder", "RSSM", "RewardDecoder", "ObsDecoder", "DiscountModel",
   "ActionModel", "ValueModel", "TargetValueModel"}

\* A sub-model attribute that was never assigned.
Absent == -1

\* The freshly initialised weights of ValueModel, and those TargetValueModel
\* is constructed with: two random initialisations, which differ.
InitValue == 0

InitTarget == 10

NoGrad == {"None"}

\* utils.module.get_parameters: the parameters of the modules of a list.
get_parameters(list) == Range(list)

\* The keys of get_save_dict's bundle.
BundleKeys ==
  {"RSSM", "ObsEncoder", "ObsDecoder", "RewardDecoder", "ActionModel",
   "ValueModel", "DiscountModel"}

MetricKeys ==
  {"model_loss", "kl_loss", "reward_loss", "obs_loss", "value_loss",
   "actor_loss", "prior_entropy", "posterior_entropy", "pcont_loss"}

\* training_config and the constructor's pixels flag; set_to_none is the
\* default of Optimizer.zero_grad of the torch in use (grads zeroed in place,
\* or dropped to None).
Configs ==
  [pixels : BOOLEAN, use_fixed_target : BOOLEAN, use_discount_model : BOOLEAN,
   collect_intervals : 0..MaxIntervals, set_to_none : BOOLEAN,
   kl_scale : {2}, pcont_scale : {3}]

VARIABLES
  cfg,            \* the configuration every Trainer is constructed with
  trainer,        \* "none" | "ok": whether a Trainer object exists
  nConstruct,     \* constructor calls so far
  nTrain,         \* train_batch calls so far
  params,         \* sub-model -> weights (Absent: no such attribute)
  grad,           \* sub-model -> .grad of its parameters
  adam,           \* sub-models whose parameters have Adam state
  world_list, actor_list, value_list,   \* self.world_list, ...
  optimizers,     \* optimizer name -> the parameter group it was given
  pc,             \* "idle", or the next statement of train_batch
  i,              \* the loop variable of train_batch
  locals,         \* the tensors train_batch holds
  lists,          \* actor_l, value_l, ... of train_batch
  train_metrics,  \* the dict train_batch fills and returns
  last,           \* the operation called last
  raised,         \* the exception it ended in, or "none"
  bundle,         \* the last dict get_save_dict returned, or EmptyDict
  bundleLive,     \* its tensors still share storage with this Trainer's
  \* history variables
  log,            \* the statements executed in the current loop iteration
  prevLog,        \* ... and in the iteration before it
  iterVals,       \* the per-iteration values of this train_batch call
  savedParams,    \* every sub-model's weights when get_save_dict ran
  targetAtSync    \* TargetValueModel's weights after the last hard copy

trainerVars ==
  <<cfg, trainer, nConstruct, nTrain, params, grad, adam, world_list,
    actor_list, value_list, optimizers, pc, i, locals, lists, train_metrics,
    last, raised, bundle, bundleLive, log, prevLog, iterVals, savedParams,
    targetAtSync>>

VARIABLES
  kl_in,          \* the prior and posterior sequences handed to _kl_loss
  kl_out          \* kl_balancing_scale -> what _kl_loss returned for it

klVars == <<kl_in, kl_out>>

VARIABLES
  vl_in,          \* value_discount, value_target, value_pred
  vl_out          \* the value loss computed from them, once it is computed

vlVars == <<vl_in, vl_out>>

VARIABLES
  seed_episodes,  \* self.seed_episodes
  sd_pc,          \* position in collect_seed_episodes
  ep,             \* its loop variable i
  seed_s,         \* its local s
  done,           \* its local done
  env_obs,        \* the observation the environment is at
  env_len,        \* steps taken in the environment's current episode
  last_add,       \* the arguments of the latest self.buffer.add call
  \* history variables
  last_step,      \* the latest env.step: observation before, action, result
  n_add, n_step, n_reset, n_done   \* calls of add, step, reset; done steps

seedVars ==
  <<seed_episodes, sd_pc, ep, seed_s, done, env_obs, env_len, last_add, last_step,
    n_add, n_step, n_reset, n_done>>

vars == <<trainerVars, klVars, vlVars, seedVars>>

\* ------------------------------------------------------------ tensors
NullTensor == [val |-> 0, deps |-> {}, used |-> {}]

NoLocals ==
  [batch |-> 0, model_loss |-> NullTensor, kl_loss |-> NullTensor,
   obs_loss |-> NullTensor, reward_loss |-> NullTensor,
   pcont_loss |-> NullTensor, prior_ent |-> NullTensor,
   post_ent |-> NullTensor, posterior |-> NullTensor,
   actor_loss |-> NullTensor, value_loss |-> NullTensor]

\* requires_grad of every parameter outside any FreezeParameters block.
RequiresGrad == [m \in Modules |-> TRUE]

\* utils.module.FreezeParameters: inside the block the parameters of the
\* listed modules do not require grad; the flags are restored on exit.
FreezeParameters(list, rg) ==
  [m \in Modules |-> IF m \in get_parameters(list) THEN FALSE ELSE rg[m]]

\* The output of module m applied to the tensors ins under flags rg.
Apply(m, ins, rg) ==
  [val |-> 0,
   deps |-> UNION {t.deps : t \in ins} \cup (IF rg[m] THEN {m} ELSE {}),
   used |-> UNION {t.used : t \in ins} \cup {m}]

\* An arithmetic combination of tensors, with value v.
Combine(v, ins) ==
  [val |-> v, deps |-> UNION {t.deps : t \in ins},
   used |-> UNION {t.used : t \in ins}]

\* Tensor.detach / rssm_detach / torch.no_grad: same value, no graph.
detach(t) == [val |-> t.val, deps |-> {}, used |-> t.used]

\* The number a loss of the given kind evaluates to on buffer batch s: the
\* networks are external, so the value is an opaque code, distinct per kind.
LossValue(kind, s) ==
  CASE kind = "obs" -> 1 + s
    [] kind = "reward" -> 4 + 2 * s
    [] kind = "pcont" -> 7 + 3 * s
    [] kind = "kl" -> 11 + 4 * s
    [] kind = "prior_ent" -> 20 + 5 * s
    [] kind = "post_ent" -> 30 + 6 * s
    [] kind = "actor" -> 40 + 7 * s
    [] kind = "value" -> 50 + 8 * s

\* ------------------------------------------------------- construction
\* self.TargetValueModel.load_state_dict(self.ValueModel.state_dict()):
\* every target tensor is overwritten by a copy of the source tensor.
load_state_dict(own, source) == source

\* __init__, lines 37-51: the sub-models the constructor builds.
BuiltModules(c) ==
  LET base == [m \in Modules |->
                 CASE m \in {"RSSM", "ActionModel", "RewardDecoder"} -> 0
                   [] m = "ValueModel" -> InitValue
                   [] OTHER -> Absent]
      withT == IF c.use_fixed_target
                 THEN [base EXCEPT !["TargetValueModel"] =
                         load_state_dict(InitTarget, base["ValueModel"])]
                 ELSE base
      withD == IF c.use_discount_model
                 THEN [withT EXCEPT !["DiscountModel"] = 0]
                 ELSE withT
  IN  [withD EXCEPT !["ObsEncoder"] = 0, !["ObsDecoder"] = 0]

\* optim_initialize: the three parameter groups.
optim_initialize(c) ==
  LET wl == <<"ObsEncoder", "RSSM", "RewardDecoder", "ObsDecoder",
              "DiscountModel">>
      al == <<"ActionModel">>
      vl == <<"ValueModel">> \o
            (IF c.use_fixed_target THEN <<"TargetValueModel">> ELSE <<>>)
  IN  [world_list |-> wl, actor_list |-> al, value_list |-> vl,
       optimizers |-> [o \in {"model", "actor", "value"} |->
                         CASE o = "model" -> get_parameters(wl)
                           [] o = "actor" -> get_parameters(al)
                           [] o = "value" -> get_parameters(vl)]]

\* The exception Trainer(...) ends in under configuration c, or "none":
\* pixels raise at line 51, before optim_initialize; optim_initialize reads
\* self.DiscountModel, which exists only under use_discount_model.
ConstructionError(c) ==
  IF c.pixels THEN "NotImplementedError"
  ELSE IF ~c.use_discount_model THEN "AttributeError"
  ELSE "none"

NoTrainer ==
  /\ trainer' = "none"
  /\ params' = [m \in Modules |-> Absent]
  /\ grad' = [m \in Modules |-> NoGrad]
  /\ adam' = {}
  /\ world_list' = <<>>
  /\ actor_list' = <<>>
  /\ value_list' = <<>>
  /\ optimizers' = EmptyDict
  /\ targetAtSync' = Absent

\* Trainer(...): a new Trainer of configuration cfg replaces the one before.
__init__ ==
  /\ pc = "idle"
  /\ nConstruct < MaxConstruct
  /\ nConstruct' = nConstruct + 1
  /\ last' = "__init__"
  /\ raised' = ConstructionError(cfg)
  /\ bundleLive' = FALSE
  /\ IF ConstructionError(cfg) = "none"
       THEN LET built == BuiltModules(cfg)
                o == optim_initialize(cfg)
            IN  /\ trainer' = "ok"
                /\ params' = built
                /\ grad' = [m \in Modules |-> NoGrad]
                /\ adam' = {}
                /\ world_list' = o.world_list
                /\ actor_list' = o.actor_list
                /\ value_list' = o.value_list
                /\ optimizers' = o.optimizers
                /\ targetAtSync' = built["TargetValueModel"]
       ELSE NoTrainer
  /\ locals' = NoLocals
  /\ UNCHANGED <<cfg, nTrain, pc, i, lists, train_metrics, bundle, log,
                 prevLog, iterVals, savedParams>>
  /\ UNCHANGED <<klVars, vlVars, seedVars>>

\* ------------------------------------------------------------- losses
\* representation_loss on buffer batch s.
representation_loss(s) ==
  LET rg == RequiresGrad
      obs == [val |-> s, deps |-> {}, used |-> {}]
      embed == Apply("ObsEncoder", {obs}, rg)
      rollout == Apply("RSSM", {embed}, rg)
      post_modelstate == rollout
      obs_dist == Apply("ObsDecoder", {post_modelstate}, rg)
      reward_dist == Apply("RewardDecoder", {post_modelstate}, rg)
      pcont_dist == Apply("DiscountModel", {post_modelstate}, rg)
      obs_loss == Combine(LossValue("obs", s), {obs_dist})
      reward_loss == Combine(LossValue("reward", s), {reward_dist})
      pcont_loss == Combine(LossValue("pcont", s), {pcont_dist})
      div == Combine(LossValue("kl", s), {rollout})
      model_loss ==
        Combine(cfg.kl_scale * div.val + reward_loss.val + obs_loss.val
                  + cfg.pcont_scale * pcont_loss.val,
                {div, reward_loss, obs_loss, pcont_loss})
  IN  [model_loss |-> model_loss, kl_loss |-> div, obs_loss |-> obs_loss,
       reward_loss |-> reward_loss, pcont_loss |-> pcont_loss,
       prior_ent |-> Combine(LossValue("prior_ent", s), {rollout}),
       post_ent |-> Combine(LossValue("post_ent", s), {rollout}),
       posterior |-> rollout]

\* Mutant of FrozenInRollout: the imagination rollout runs unfrozen.
FrozenInRolloutNone == <<>>

\* Mutant of FrozenInRewardValue: only the world model is frozen.
FrozenInRewardValueWorldOnly == world_list

\* The module lists of the three FreezeParameters blocks of actorcritc_loss.
FrozenInRollout == world_list

FrozenInRewardValue == world_list \o value_list

FrozenInDiscount == <<"DiscountModel">>

\* actorcritc_loss on the posterior of buffer batch s.
actorcritc_loss(posterior, s) ==
  LET rg == RequiresGrad
      batched_posterior == detach(posterior)
      rgR == FreezeParameters(FrozenInRollout, rg)
      imag_rssm_states ==
        Apply("RSSM", {Apply("ActionModel", {batched_posterior}, rgR)}, rgR)
      policy_entropy == Apply("ActionModel", {imag_rssm_states}, rgR)
      imag_modelstates == imag_rssm_states
      rgV == FreezeParameters(FrozenInRewardValue, rg)
      imag_reward == Apply("RewardDecoder", {imag_modelstates}, rgV)
      imag_value ==
        IF cfg.use_fixed_target
          THEN Apply("TargetValueModel", {imag_modelstates}, rgV)
          ELSE Apply("ValueModel", {imag_modelstates}, rgV)
      rgD == FreezeParameters(FrozenInDiscount, rg)
      discount_arr == Apply("DiscountModel", {imag_modelstates}, rgD)
      lambda_returns == Combine(0, {imag_reward, imag_value, discount_arr})
      discount == Combine(0, {discount_arr})
      actor_loss ==
        Combine(LossValue("actor", s),
                {discount, lambda_returns, policy_entropy})
      value_modelstates == detach(imag_modelstates)
      value_discount == detach(discount)
      value_target == detach(lambda_returns)
      value_pred == Apply("ValueModel", {value_modelstates}, rg)
      value_loss ==
        Combine(LossValue("value", s),
                {value_discount, value_target, value_pred})
  IN  [actor_loss |-> actor_loss, value_loss |-> value_loss]

\* ------------------------------------------------- autograd, optimizers
\* loss.backward(): accumulate into .grad of every parameter the graph of
\* the loss reaches.
backward(g, name, loss) ==
  [m \in Modules |->
     IF m \in loss.deps THEN (g[m] \ NoGrad) \cup {name} ELSE g[m]]

\* optimizer.zero_grad() over a parameter group.
zero_grad(g, group) ==
  [m \in Modules |->
     IF m \in group /\ g[m] # NoGrad
       THEN (IF cfg.set_to_none THEN NoGrad ELSE {})
       ELSE g[m]]

\* The parameters of a group an Adam step moves: those with a gradient that
\* is not None and either non-zero or with momentum from earlier steps.
Moved(group) ==
  {m \in group : grad[m] # NoGrad /\ (grad[m] # {} \/ m \in adam)}

\* optimizer.step() over a parameter group.
step(p, group) == [m \in Modules |-> IF m \in Moved(group) THEN p[m] + 1 ELSE p[m]]

\* A live bundle's tensors are the Trainer's own: it follows every in-place
\* change of the weights.
Follow(b, p) ==
  IF bundleLive /\ b # EmptyDict THEN [k \in DOMAIN b |-> p[k]] ELSE b

\* ---------------------------------------------------------- train_batch
\* Mutant of LoopBody: the actor-critic loss is taken before the world model
\* is updated.
LoopBodyAcFirst ==
  <<"sample", "representation_loss", "actorcritc_loss", "model_zero_grad",
    "model_backward", "model_clip", "model_step", "actor_zero_grad",
    "value_zero_grad", "actor_backward", "value_backward", "actor_clip",
    "value_clip", "actor_step", "value_step", "append">>

\* The statements of one iteration of the loop of train_batch, in program
\* order (lines 117-155).
LoopBody ==
  <<"sample", "representation_loss", "model_zero_grad", "model_backward",
    "model_clip", "model_step", "actorcritc_loss", "actor_zero_grad",
    "value_zero_grad", "actor_backward", "value_backward", "actor_clip",
    "value_clip", "actor_step", "value_step", "append">>

EmptyLists ==
  [actor_l |-> <<>>, value_l |-> <<>>, obs_l |-> <<>>, model_l |-> <<>>,
   reward_l |-> <<>>, prior_ent_l |-> <<>>, post_ent_l |-> <<>>,
   kl_l |-> <<>>, pcont_l |-> <<>>]

\* Mutant of FreshLists: the lists outlive the call, as attributes would.
StaleLists == lists

\* The lists train_batch starts with (lines 106-114).
FreshLists == EmptyLists

\* np.mean of a list of floats, as the fraction num/den; den = 0 is nan,
\* numpy's mean of an empty list.
np_mean(l) == [num |-> Sum(l), den |-> Len(l)]

\* The statement control reaches after stmt: the next of the body, or the
\* loop test of range(self.collect_intervals).
After(stmt) ==
  LET k == IndexOf(LoopBody, stmt)
  IN  IF k < Len(LoopBody) THEN LoopBody[k + 1]
      ELSE IF i + 1 < cfg.collect_intervals THEN LoopBody[1]
      ELSE "return"

\* Control passes over statement stmt of the loop body.
Exec(stmt) ==
  LET k == IndexOf(LoopBody, stmt)
  IN  /\ pc = stmt
      /\ pc' = After(stmt)
      /\ i' = IF k = Len(LoopBody) THEN i + 1 ELSE i
      /\ log' = IF k = 1 THEN <<stmt>> ELSE Append(log, stmt)
      /\ prevLog' = IF k = 1 THEN log ELSE prevLog

\* train_batch(train_metrics) is entered: lines 102-116.
train_batch ==
  /\ pc = "idle"
  /\ trainer = "ok"
  /\ nTrain < MaxTrainCalls
  /\ \E tm \in {EmptyDict, train_metrics} : train_metrics' = tm
  /\ lists' = FreshLists
  /\ i' = 0
  /\ pc' = IF cfg.collect_intervals > 0 THEN LoopBody[1] ELSE "return"
  /\ last' = "train_batch"
  /\ raised' = "none"
  /\ log' = <<>>
  /\ prevLog' = <<>>
  /\ iterVals' = <<>>
  /\ locals' = NoLocals
  /\ UNCHANGED <<cfg, trainer, nConstruct, nTrain, params, grad, adam,
                 world_list, actor_list, value_list, optimizers, bundle,
                 bundleLive, savedParams, targetAtSync>>
  /\ UNCHANGED <<klVars, vlVars, seedVars>>

\* What no statement of train_batch changes.
TrainFrame ==
  UNCHANGED <<cfg, trainer, nConstruct, nTrain, world_list, actor_list,
              value_list, optimizers, train_metrics, last, raised,
              bundleLive, savedParams, targetAtSync, klVars, vlVars,
              seedVars>>

\* lines 117-121: self.buffer.sample(self.seq_len, self.batch_size)
sample ==
  /\ Exec("sample")
  /\ \E s \in 0..MaxSample : locals' = [locals EXCEPT !.batch = s]
  /\ TrainFrame
  /\ UNCHANGED <<params, grad, adam, lists, bundle, iterVals>>

\* line 123
representation_loss_call ==
  /\ Exec("representation_loss")
  /\ LET r == representation_loss(locals.batch)
     IN  locals' = [locals EXCEPT
                      !.model_loss = r.model_loss, !.kl_loss = r.kl_loss,
                      !.obs_loss = r.obs_loss, !.reward_loss = r.reward_loss,
                      !.pcont_loss = r.pcont_loss, !.prior_ent = r.prior_ent,
                      !.post_ent = r.post_ent, !.posterior = r.posterior]
  /\ TrainFrame
  /\ UNCHANGED <<params, grad, adam, lists, bundle, iterVals>>

\* line 125: self.model_optimizer.zero_grad()
model_zero_grad ==
  /\ Exec("model_zero_grad")
  /\ grad' = zero_grad(grad, optimizers["model"])
  /\ TrainFrame
  /\ UNCHANGED <<params, adam, locals, lists, bundle, iterVals>>

\* line 126: model_loss.backward()
model_backward ==
  /\ Exec("model_backward")
  /\ grad' = backward(grad, "model", locals.model_loss)
  /\ TrainFrame
  /\ UNCHANGED <<params, adam, locals, lists, bundle, iterVals>>

\* lines 127, 137, 138: clip_grad_norm_ rescales the gradients of a list in
\* place; which losses they came from does not change.
clip(stmt, list) ==
  /\ Exec(stmt)
  /\ get_parameters(list) \subseteq Modules
  /\ TrainFrame
  /\ UNCHANGED <<params, grad, adam, locals, lists, bundle, iterVals>>

model_clip == clip("model_clip", world_list)

\* lines 128, 140, 141: optimizer.step()
optimizer_step(stmt, o) ==
  /\ Exec(stmt)
  /\ params' = step(params, optimizers[o])
  /\ adam' = adam \cup {m \in optimizers[o] : grad[m] # NoGrad}
  /\ bundle' = Follow(bundle, params')
  /\ TrainFrame
  /\ UNCHANGED <<grad, locals, lists, iterVals>>

model_step == optimizer_step("model_step", "model")

\* line 130
actorcritc_loss_call ==
  /\ Exec("actorcritc_loss")
  /\ LET r == actorcritc_loss(locals.posterior, locals.batch)
     IN  locals' = [locals EXCEPT !.actor_loss = r.actor_loss,
                                  !.value_loss = r.value_loss]
  /\ TrainFrame
  /\ UNCHANGED <<params, grad, adam, lists, bundle, iterVals>>

\* line 131
actor_zero_grad ==
  /\ Exec("actor_zero_grad")
  /\ grad' = zero_grad(grad, optimizers["actor"])
  /\ TrainFrame
  /\ UNCHANGED <<params, adam, locals, lists, bundle, iterVals>>

\* line 132
value_zero_grad ==
  /\ Exec("value_zero_grad")
  /\ grad' = zero_grad(grad, optimizers["value"])
  /\ TrainFrame
  /\ UNCHANGED <<params, adam, locals, lists, bundle, iterVals>>

\* line 134: actor_loss.backward()
actor_backward ==
  /\ Exec("actor_backward")
  /\ grad' = backward(grad, "actor", locals.actor_loss)
  /\ TrainFrame
  /\ UNCHANGED <<params, adam, locals, lists, bundle, iterVals>>

\* line 135: value_loss.backward()
value_backward ==
  /\ Exec("value_backward")
  /\ grad' = backward(grad, "value", locals.value_loss)
  /\ TrainFrame
  /\ UNCHANGED <<params, adam, locals, lists, bundle, iterVals>>

actor_clip == clip("actor_clip", actor_list)

value_clip == clip("value_clip", value_list)

actor_step == optimizer_step("actor_step", "actor")

value_step == optimizer_step("value_step", "value")

\* lines 143-155: the entropies and the nine appends.
append ==
  /\ Exec("append")
  /\ lists' =
       [actor_l |-> Append(lists.actor_l, locals.actor_loss.val),
        value_l |-> Append(lists.value_l, locals.value_loss.val),
        obs_l |-> Append(lists.obs_l, locals.obs_loss.val),
        model_l |-> Append(lists.model_l, locals.model_loss.val),
        reward_l |-> Append(lists.reward_l, locals.reward_loss.val),
        prior_ent_l |-> Append(lists.prior_ent_l, locals.prior_ent.val),
        post_ent_l |-> Append(lists.post_ent_l, locals.post_ent.val),
        kl_l |-> Append(lists.kl_l, locals.kl_loss.val),
        pcont_l |-> Append(lists.pcont_l, locals.pcont_loss.val)]
  /\ iterVals' =
       Append(iterVals,
              [k \in MetricKeys |->
                 CASE k = "model_loss" -> locals.model_loss.val
                   [] k = "kl_loss" -> locals.kl_loss.val
                   [] k = "reward_loss" -> locals.reward_loss.val
                   [] k = "obs_loss" -> locals.obs_loss.val
                   [] k = "value_loss" -> locals.value_loss.val
                   [] k = "actor_loss" -> locals.actor_loss.val
                   [] k = "prior_entropy" -> locals.prior_ent.val
                   [] k = "posterior_entropy" -> locals.post_ent.val
                   [] k = "pcont_loss" -> locals.pcont_loss.val])
  /\ TrainFrame
  /\ UNCHANGED <<params, grad, adam, locals, bundle>>

\* lines 158-166: the nine assignments into train_metrics.
FillMetrics(tm, l) ==
  LET m1 == Put(tm, "model_loss", np_mean(l.model_l))
      m2 == Put(m1, "kl_loss", np_mean(l.kl_l))
      m3 == Put(m2, "reward_loss", np_mean(l.reward_l))
      m4 == Put(m3, "obs_loss", np_mean(l.obs_l))
      m5 == Put(m4, "value_loss", np_mean(l.value_l))
      m6 == Put(m5, "actor_loss", np_mean(l.actor_l))
      m7 == Put(m6, "prior_entropy", np_mean(l.prior_ent_l))
      m8 == Put(m7, "posterior_entropy", np_mean(l.post_ent_l))
  IN  Put(m8, "pcont_loss", np_mean(l.pcont_l))

\* lines 158-168: train_batch returns train_metrics.
train_batch_return ==
  /\ pc = "return"
  /\ pc' = "idle"
  /\ train_metrics' = FillMetrics(train_metrics, lists)
  /\ nTrain' = nTrain + 1
  /\ i' = 0
  /\ locals' = NoLocals
  /\ log' = <<>>
  /\ prevLog' = <<>>
  /\ UNCHANGED <<cfg, trainer, nConstruct, params, grad, adam, world_list,
                 actor_list, value_list, optimizers, lists, last, raised,
                 bundle, bundleLive, iterVals, savedParams, targetAtSync>>
  /\ UNCHANGED <<klVars, vlVars, seedVars>>

\* -------------------------------------------------- the other methods
\* What a method that only returns or raises leaves alone.
CallFrame ==
  UNCHANGED <<cfg, trainer, nConstruct, nTrain, grad, adam, world_list,
              actor_list, value_list, optimizers, pc, i, locals, lists,
              train_metrics, log, prevLog, iterVals, klVars, vlVars,
              seedVars>>

\* Mutant of update_target: a soft (Polyak) update that blends the critic
\* into the old target.
update_target_soft ==
  /\ pc = "idle"
  /\ trainer = "ok"
  /\ last' = "update_target"
  /\ IF params["TargetValueModel"] # Absent
       THEN /\ params' = [params EXCEPT !["TargetValueModel"] =
                            (@ + params["ValueModel"]) \div 2]
            /\ targetAtSync' = params'["TargetValueModel"]
            /\ raised' = "none"
       ELSE /\ raised' = "AttributeError"
            /\ UNCHANGED <<params, targetAtSync>>
  /\ UNCHANGED <<cfg, trainer, nConstruct, nTrain, grad, adam, world_list,
                 actor_list, value_list, optimizers, pc, i, locals, lists,
                 train_metrics, log, prevLog, iterVals, bundle, bundleLive,
                 savedParams, klVars, vlVars, seedVars>>

\* update_target, lines 99-100.
update_target ==
  /\ pc = "idle"
  /\ trainer = "ok"
  /\ last' = "update_target"
  /\ IF params["TargetValueModel"] # Absent
       THEN /\ params' = [params EXCEPT !["TargetValueModel"] =
                            load_state_dict(@, params["ValueModel"])]
            /\ targetAtSync' = params'["TargetValueModel"]
            /\ raised' = "none"
       ELSE /\ raised' = "AttributeError"
            /\ UNCHANGED <<params, targetAtSync>>
  /\ CallFrame
  /\ UNCHANGED <<bundle, bundleLive, savedParams>>

\* get_save_dict, lines 256-265: state_dict() hands out the live tensors.
get_save_dict ==
  /\ pc = "idle"
  /\ trainer = "ok"
  /\ last' = "get_save_dict"
  /\ raised' = "none"
  /\ bundle' = [k \in BundleKeys |-> params[k]]
  /\ bundleLive' = TRUE
  /\ savedParams' = params
  /\ CallFrame
  /\ UNCHANGED <<params, targetAtSync>>

\* load_save_dict(saved_dict), lines 267-274, on the bundle held.
load_save_dict ==
  /\ pc = "idle"
  /\ trainer = "ok"
  /\ bundle # EmptyDict
  /\ last' = "load_save_dict"
  /\ raised' = "none"
  /\ params' =
       [params EXCEPT
          !["RSSM"] = load_state_dict(@, bundle["RSSM"]),
          !["ObsEncoder"] = load_state_dict(@, bundle["ObsEncoder"]),
          !["ObsDecoder"] = load_state_dict(@, bundle["ObsDecoder"]),
          !["RewardDecoder"] = load_state_dict(@, bundle["RewardDecoder"]),
          !["ActionModel"] = load_state_dict(@, bundle["ActionModel"]),
          !["ValueModel"] = load_state_dict(@, bundle["ValueModel"]),
          !["DiscountModel"] = load_state_dict(@, bundle["DiscountModel"])]
  /\ bundle' = Follow(bundle, params')
  /\ CallFrame
  /\ UNCHANGED <<bundleLive, savedParams, targetAtSync>>

\* A method whose body is raise NotImplementedError.
Unsupported(name) ==
  /\ pc = "idle"
  /\ trainer = "ok"
  /\ last' = name
  /\ raised' = "NotImplementedError"
  /\ CallFrame
  /\ UNCHANGED <<params, bundle, bundleLive, savedParams, targetAtSync>>

\* lines 247-248
_actor_loss == Unsupported("_actor_loss")

\* lines 250-251
_value_loss == Unsupported("_value_loss")

\* Mutant of save_model: a silent no-op that returns normally.
save_model_noop ==
  /\ pc = "idle"
  /\ trainer = "ok"
  /\ last' = "save_model"
  /\ raised' = "none"
  /\ CallFrame
  /\ UNCHANGED <<params, bundle, bundleLive, savedParams, targetAtSync>>

\* lines 253-254
save_model == Unsupported("save_model")

\* ------------------------------------------------------------ _kl_loss
\* Numbers of the form (ln2 * ln 2 + r) / den, den > 0: ln 2 is irrational,
\* so two of them are equal iff both parts agree.
Abs(x) == IF x < 0 THEN -x ELSE x

RECURSIVE GCD(_, _)
GCD(a, b) == IF b = 0 THEN a ELSE GCD(b, a % b)

\* The same number in lowest terms.
NumNorm(x) ==
  LET g == GCD(GCD(Abs(x.ln2), Abs(x.r)), x.den)
  IN  [ln2 |-> x.ln2 \div g, r |-> x.r \div g, den |-> x.den \div g]

NumScale(cn, cd, x) ==
  NumNorm([ln2 |-> cn * x.ln2, r |-> cn * x.r, den |-> cd * x.den])

NumAdd(x, y) ==
  NumNorm([ln2 |-> x.ln2 * y.den + y.ln2 * x.den,
           r |-> x.r * y.den + y.r * x.den, den |-> x.den * y.den])

NumEq(x, y) == x.ln2 * y.den = y.ln2 * x.den /\ x.r * y.den = y.r * x.den

NumZero == [ln2 |-> 0, r |-> 0, den |-> 1]

\* self.kl_balancing_scale is None (use_kl_balancing off).
NoBalance == -1

\* kl_balancing_scale, in tenths.
Balances == {0, 5, 8, 9, 10}

\* A latent state of a sequence: stochastic mean, std = 2^e, and the graph
\* ("prior" or "post") its gradient flows back into, "none" once detached.
LatentStates(src) == [mean : {0, 1}, e : {0, 1}, src : {src}]

\* utils.rssm.rssm_detach: the same states, cut from their graph.
rssm_detach(seq) == [k \in DOMAIN seq |-> [seq[k] EXCEPT !.src = "none"]]

RECURSIVE Pow4(_)
Pow4(e) == IF e = 0 THEN 1 ELSE 4 * Pow4(e - 1)

\* utils.rssm.get_dist: Normal(mean, std) of every state.
get_dist(seq) ==
  [k \in DOMAIN seq |->
     [loc |-> seq[k].mean, e |-> seq[k].e, var |-> Pow4(seq[k].e),
      src |-> seq[k].src]]

\* torch.distributions.kl.kl_divergence(p, q) of two Normal sequences:
\* log(sq/sp) + (sp^2 + (mp - mq)^2) / (2 sq^2) - 1/2 at every step.
kl_divergence(p, q) ==
  [k \in DOMAIN p |->
     [num |-> [ln2 |-> 8 * (q[k].e - p[k].e),
               r |-> (4 * (p[k].var + (p[k].loc - q[k].loc)
                                        * (p[k].loc - q[k].loc)))
                       \div q[k].var - 4,
               den |-> 8],
      to |-> {p[k].src, q[k].src} \ {"none"}]]

RECURSIVE NumSum(_)
NumSum(seq) ==
  IF seq = <<>> THEN NumZero ELSE NumAdd(seq[1].num, NumSum(Tail(seq)))

\* torch.mean of a sequence of numbers; w is the weight (in tenths) with
\* which its gradient reaches the prior and the posterior graph.
torch_mean(seq) ==
  [num |-> NumScale(1, Len(seq), NumSum(seq)),
   w |-> [g \in {"prior", "post"} |->
            IF \E k \in DOMAIN seq : g \in seq[k].to THEN 10 ELSE 0]]

\* c/10 * x + d/10 * y
Blend(c, x, d, y) ==
  [num |-> NumAdd(NumScale(c, 10, x.num), NumScale(d, 10, y.num)),
   w |-> [g \in {"prior", "post"} |->
            (c * x.w[g]) \div 10 + (d * y.w[g]) \div 10]]

\* Mutant of _kl_loss: the second term is weighted by the scale too.
_kl_loss_same_weight(prior, posterior, scale) ==
  LET prior_dist == get_dist(prior)
      post_dist == get_dist(posterior)
  IN  IF scale # NoBalance
        THEN Blend(scale,
                   torch_mean(kl_divergence(get_dist(rssm_detach(posterior)),
                                            prior_dist)),
                   scale,
                   torch_mean(kl_divergence(post_dist,
                                            get_dist(rssm_detach(prior)))))
        ELSE torch_mean(kl_divergence(post_dist, prior_dist))

\* _kl_loss, lines 227-236: the kl_loss it returns.
_kl_loss(prior, posterior, scale) ==
  LET prior_dist == get_dist(prior)
      post_dist == get_dist(posterior)
  IN  IF scale # NoBalance
        THEN Blend(scale,
                   torch_mean(kl_divergence(get_dist(rssm_detach(posterior)),
                                            prior_dist)),
                   10 - scale,
                   torch_mean(kl_divergence(post_dist,
                                            get_dist(rssm_detach(prior)))))
        ELSE torch_mean(kl_divergence(post_dist, prior_dist))

KLIdle ==
  /\ kl_in = [prior |-> <<>>, posterior |-> <<>>]
  /\ kl_out = EmptyDict

InitKL ==
  /\ \E n \in 1..MaxKLSteps :
       kl_in \in [prior : [1..n -> LatentStates("prior")],
                  posterior : [1..n -> LatentStates("post")]]
  /\ kl_out = EmptyDict

\* self._kl_loss(prior, posterior) by a Trainer whose kl_balancing_scale is
\* scale.
_kl_loss_call ==
  /\ \E scale \in (Balances \cup {NoBalance}) \ DOMAIN kl_out :
       kl_out' = Put(kl_out, scale,
                     _kl_loss(kl_in.prior, kl_in.posterior, scale))
  /\ UNCHANGED <<kl_in, trainerVars, vlVars, seedVars>>

\* ---------------------------------------------------------- value loss
\* Rationals n/d, d > 0.
RatEq(x, y) == x.n * y.d = y.n * x.d

\* Discounts in halves, value targets and value predictions.
DiscountHalves == {1, 2}

ValueTargets == {0, 2}

ValuePreds == {0, 1}

RECURSIVE SumTo(_, _)
\* f[1] + ... + f[n]
SumTo(f, n) == IF n = 0 THEN 0 ELSE f[n] + SumTo(f, n - 1)

\* Tensor.sum() of a tensor of shape [H, N] given entrywise.
TensorSum(H, N, f) ==
  SumTo([h \in 1..H |-> SumTo([n \in 1..N |-> f[h][n]], N)], H)

\* line 202: torch.mean((0.5*(value_discount*(value_target-value_pred))**2).sum())
\* The square of 0.5 * d2/2 * (t - p) is (d2 * (t - p))^2 / 16; the sum is a
\* scalar, whose mean is the scalar itself.
value_loss(x) ==
  LET sq == [h \in 1..x.H |-> [n \in 1..x.N |->
               (x.disc[h][n] * (x.target[h][n] - x.pred[h][n]))
                 * (x.disc[h][n] * (x.target[h][n] - x.pred[h][n]))]]
      summed == <<TensorSum(x.H, x.N, sq)>>
  IN  [n |-> Sum(summed), d |-> 16 * Len(summed)]

VLIdle ==
  /\ vl_in = [H |-> 0, N |-> 0, disc |-> <<>>, target |-> <<>>, pred |-> <<>>]
  /\ vl_out = [computed |-> FALSE, loss |-> [n |-> 0, d |-> 1]]

InitVL ==
  /\ \E H \in 1..MaxHorizon, N \in 1..MaxSeeds :
       vl_in \in [H : {H}, N : {N},
                  disc : [1..H -> [1..N -> DiscountHalves]],
                  target : [1..H -> [1..N -> ValueTargets]],
                  pred : [1..H -> [1..N -> ValuePreds]]]
  /\ vl_out = [computed |-> FALSE, loss |-> [n |-> 0, d |-> 1]]

\* lines 196-202 of actorcritc_loss on the tensors vl_in.
value_loss_call ==
  /\ ~vl_out.computed
  /\ vl_out' = [computed |-> TRUE, loss |-> value_loss(vl_in)]
  /\ UNCHANGED <<vl_in, trainerVars, klVars, seedVars>>

\* ------------------------------------------------ collect_seed_episodes
Observations == {0, 1}

Actions == {0, 1}

Rewards == {0, 1}

NoAdd == [s |-> 0, a |-> 0, r |-> 0, done |-> FALSE, next |-> <<>>]

NoStep == [obs |-> 0, a |-> 0, r |-> 0, done |-> FALSE, ns |-> 0]

SeedFresh ==
  /\ ep = 0
  /\ seed_s = 0
  /\ done = FALSE
  /\ env_obs = 0
  /\ env_len = 0
  /\ last_add = NoAdd
  /\ last_step = NoStep
  /\ n_add = 0
  /\ n_step = 0
  /\ n_reset = 0
  /\ n_done = 0

SeedIdle ==
  /\ seed_episodes = 0
  /\ sd_pc = "returned"
  /\ SeedFresh

\* collect_seed_episodes(env) has just been called.
InitSeed ==
  /\ seed_episodes \in 0..MaxSeedEpisodes
  /\ sd_pc = "for"
  /\ SeedFresh

SeedFrame == UNCHANGED <<seed_episodes, trainerVars, klVars, vlVars>>

\* lines 88-89: the next episode: s, done = env.reset(), False
seed_reset ==
  /\ sd_pc = "for"
  /\ ep < seed_episodes
  /\ \E o \in Observations : env_obs' = o /\ seed_s' = o
  /\ done' = FALSE
  /\ env_len' = 0
  /\ n_reset' = n_reset + 1
  /\ sd_pc' = "while"
  /\ SeedFrame
  /\ UNCHANGED <<ep, last_add, last_step, n_add, n_step, n_done>>

\* Mutant of NextS: the assignment s = ns is missing.
NextSStale(cur, ns, d) == cur

\* lines 93-97: s after the step: s = ns only on the branch that is not done.
NextS(cur, ns, d) == IF d THEN cur ELSE ns

\* lines 93-96: the arguments of self.buffer.add
AddArgs(cur, a, r, d, ns) ==
  IF d THEN [s |-> cur, a |-> a, r |-> r, done |-> d, next |-> <<ns>>]
       ELSE [s |-> cur, a |-> a, r |-> r, done |-> d, next |-> <<>>]

\* lines 90-97: one pass of the while loop. The environment ends every
\* episode within MaxEpisodeLen steps.
seed_step ==
  /\ sd_pc = "while"
  /\ ~done
  /\ \E a \in Actions, ns \in Observations, r \in Rewards, d \in BOOLEAN :
       /\ env_len + 1 >= MaxEpisodeLen => d
       /\ last_step' = [obs |-> env_obs, a |-> a, r |-> r, done |-> d,
                        ns |-> ns]
       /\ env_obs' = ns
       /\ n_done' = IF d THEN n_done + 1 ELSE n_done
       /\ last_add' = AddArgs(seed_s, a, r, d, ns)
       /\ seed_s' = NextS(seed_s, ns, d)
       /\ done' = d
  /\ env_len' = env_len + 1
  /\ n_step' = n_step + 1
  /\ n_add' = n_add + 1
  /\ SeedFrame
  /\ UNCHANGED <<sd_pc, ep, n_reset>>

\* line 90: the while loop ends, and with it the episode.
seed_episode_end ==
  /\ sd_pc = "while"
  /\ done
  /\ ep' = ep + 1
  /\ sd_pc' = "for"
  /\ SeedFrame
  /\ UNCHANGED <<seed_s, done, env_obs, env_len, last_add, last_step, n_add,
                 n_step, n_reset, n_done>>

\* line 88: range(self.seed_episodes) is exhausted: the method returns.
seed_return ==
  /\ sd_pc = "for"
  /\ ep >= seed_episodes
  /\ sd_pc' = "returned"
  /\ SeedFrame
  /\ UNCHANGED <<ep, seed_s, done, env_obs, env_len, last_add, last_step, n_add,
                 n_step, n_reset, n_done>>

\* --------------------------------------------------- the specification
\* No Trainer has been constructed.
TrainerFresh ==
  /\ trainer = "none"
  /\ nConstruct = 0
  /\ nTrain = 0
  /\ params = [m \in Modules |-> Absent]
  /\ grad = [m \in Modules |-> NoGrad]
  /\ adam = {}
  /\ world_list = <<>>
  /\ actor_list = <<>>
  /\ value_list = <<>>
  /\ optimizers = EmptyDict
  /\ pc = "idle"
  /\ i = 0
  /\ locals = NoLocals
  /\ lists = EmptyLists
  /\ train_metrics = EmptyDict
  /\ last = "none"
  /\ raised = "none"
  /\ bundle = EmptyDict
  /\ bundleLive = FALSE
  /\ log = <<>>
  /\ prevLog = <<>>
  /\ iterVals = <<>>
  /\ savedParams = [m \in Modules |-> Absent]
  /\ targetAtSync = Absent

Init ==
  /\ cfg \in Configs
  /\ TrainerFresh
  /\ KLIdle
  /\ VLIdle
  /\ SeedIdle

Next ==
  \/ __init__
  \/ train_batch
  \/ sample
  \/ representation_loss_call
  \/ model_zero_grad
  \/ model_backward
  \/ model_clip
  \/ model_step
  \/ actorcritc_loss_call
  \/ actor_zero_grad
  \/ value_zero_grad
  \/ actor_backward
  \/ value_backward
  \/ actor_clip
  \/ value_clip
  \/ actor_step
  \/ value_step
  \/ append
  \/ train_batch_return
  \/ update_target
  \/ _actor_loss
  \/ _value_loss
  \/ save_model

Spec == Init /\ [][Next]_vars

\* Spec together with the checkpoint methods.
NextCkpt ==
  \/ __init__
  \/ train_batch
  \/ sample
  \/ representation_loss_call
  \/ model_zero_grad
  \/ model_backward
  \/ model_clip
  \/ model_step
  \/ actorcritc_loss_call
  \/ actor_zero_grad
  \/ value_zero_grad
  \/ actor_backward
  \/ value_backward
  \/ actor_clip
  \/ value_clip
  \/ actor_step
  \/ value_step
  \/ append
  \/ train_batch_return
  \/ update_target
  \/ get_save_dict
  \/ load_save_dict
  \/ _actor_loss
  \/ _value_loss
  \/ save_model

SpecCkpt == Init /\ [][NextCkpt]_vars

\* A configuration for the specifications that construct no Trainer.
IdleConfig ==
  [pixels |-> FALSE, use_fixed_target |-> TRUE, use_discount_model |-> TRUE,
   collect_intervals |-> 0, set_to_none |-> FALSE, kl_scale |-> 2,
   pcont_scale |-> 3]

InitKLSpec == cfg = IdleConfig /\ TrainerFresh /\ InitKL /\ VLIdle /\ SeedIdle

NextKL == _kl_loss_call

SpecKL == InitKLSpec /\ [][NextKL]_vars

InitVLSpec == cfg = IdleConfig /\ TrainerFresh /\ KLIdle /\ InitVL /\ SeedIdle

NextVL == value_loss_call

SpecVL == InitVLSpec /\ [][NextVL]_vars

InitSeedSpec ==
  cfg = IdleConfig /\ TrainerFresh /\ KLIdle /\ VLIdle /\ InitSeed

NextSeed ==
  \/ seed_reset
  \/ seed_step
  \/ seed_episode_end
  \/ seed_return

\* The call runs on: Python executes the next statement as long as there is
\* one.
SpecSeed == InitSeedSpec /\ [][NextSeed]_vars /\ WF_vars(NextSeed)

\* ------------------------------------------------------------ the claims
WorldModel ==
  {"ObsEncoder", "RSSM", "RewardDecoder", "ObsDecoder", "DiscountModel"}

Critic == {"ValueModel", "TargetValueModel"}

\* Statement x occurs in l only after statement y has occurred.
OnlyAfter(l, x, y) ==
  \A k \in DOMAIN l :
    l[k] = x => \E a \in 1..(k - 1) : l[a] = y

IsModelUpdate(stmt) ==
  stmt \in {"model_zero_grad", "model_backward", "model_clip", "model_step"}

\* C1: in every iteration of train_batch the world-model update (zero_grad,
\* backward, clipping, step, in that order) is complete before
\* actorcritc_loss is called, the actor and critic optimizers step only
\* after actorcritc_loss, and an iteration samples the buffer only after
\* the actor and critic steps of the iteration before it.
C1_UpdateOrder ==
  /\ \A k \in DOMAIN log :
       log[k] = "actorcritc_loss" =>
         SelectSeq(SubSeq(log, 1, k - 1), IsModelUpdate)
           = <<"model_zero_grad", "model_backward", "model_clip",
               "model_step">>
  /\ OnlyAfter(log, "actor_step", "actorcritc_loss")
  /\ OnlyAfter(log, "value_step", "actorcritc_loss")
  /\ (i > 0 /\ pc \in Range(LoopBody) \ {LoopBody[1]}) =>
       /\ log[1] = "sample"
       /\ {"actor_step", "value_step"} \subseteq Range(prevLog)

C1_Witness ==
  /\ i = 1
  /\ pc = "append"
  /\ "actorcritc_loss" \in Range(log)
  /\ "value_step" \in Range(log)
  /\ "value_step" \in Range(prevLog)

\* C2: the backward pass of the actor loss accumulates gradient on no
\* world-model parameter and on no critic parameter, only on ActionModel,
\* although the forward computation of the actor loss went through the
\* RSSM, the reward decoder, the discount model and the value (or target
\* value) network.
C2_ActorGradIsolated ==
  /\ \A m \in WorldModel \cup Critic : "actor" \notin grad[m]
  /\ "actor_backward" \in Range(log) =>
       /\ {m \in Modules : "actor" \in grad[m]} = {"ActionModel"}
       /\ {"RSSM", "RewardDecoder", "DiscountModel"}
            \subseteq locals.actor_loss.used
       /\ (IF cfg.use_fixed_target THEN "TargetValueModel" ELSE "ValueModel")
            \in locals.actor_loss.used
       /\ \A m \in WorldModel : grad[m] = {"model"}

C2_Witness ==
  /\ pc = "value_backward"
  /\ "actor_backward" \in Range(log)
  /\ "actor" \in grad["ActionModel"]
  /\ "RSSM" \in locals.actor_loss.used
  /\ grad["RSSM"] = {"model"}

\* C3: with use_fixed_target, right after construction and right after
\* every update_target the TargetValueModel weights equal the ValueModel
\* weights.
C3_HardCopy ==
  (trainer = "ok" /\ cfg.use_fixed_target
     /\ last \in {"__init__", "update_target"}) =>
    /\ params["TargetValueModel"] # Absent
    /\ params["TargetValueModel"] = params["ValueModel"]

C3_Witness ==
  /\ cfg.use_fixed_target
  /\ last = "update_target"
  /\ nTrain = 2
  /\ params["ValueModel"] > InitValue
  /\ params["TargetValueModel"] = params["ValueModel"]

\* The sum of quantity k over the iterations recorded in vals.
RECURSIVE SumOf(_, _)
SumOf(vals, k) ==
  IF vals = <<>> THEN 0 ELSE vals[1][k] + SumOf(Tail(vals), k)

\* C4: when train_batch returns, the mapping holds all nine keys, each the
\* mean of exactly the collect_intervals values of that quantity computed
\* in the iterations of this call.
C4_MetricsAreMeans ==
  (last = "train_batch" /\ pc = "idle") =>
    /\ MetricKeys \subseteq DOMAIN train_metrics
    /\ Len(iterVals) = cfg.collect_intervals
    /\ \A k \in MetricKeys :
         /\ train_metrics[k].den = cfg.collect_intervals
         /\ train_metrics[k].num = SumOf(iterVals, k)

C4_Witness ==
  /\ last = "train_batch"
  /\ pc = "idle"
  /\ nTrain = 2
  /\ cfg.collect_intervals = 2
  /\ train_metrics["obs_loss"] = [num |-> 3, den |-> 2]
  /\ train_metrics["pcont_loss"] = [num |-> 17, den |-> 2]

\* C6: after load_save_dict of the bundle get_save_dict returned, every
\* sub-model of the Trainer has the weights it had when the bundle was
\* taken, TargetValueModel included.
C6_BundleRestoresAll ==
  (last = "load_save_dict" /\ raised = "none") =>
    \A m \in Modules : params[m] # Absent => params[m] = savedParams[m]

UnsupportedMethods == {"save_model", "_actor_loss", "_value_loss"}

\* C7: construction with pixels fails (no Trainer, no optimizer), and
\* save_model, _actor_loss and _value_loss end in NotImplementedError on
\* every call and change no model or optimizer state.
C7_UnsupportedRaise ==
  /\ [](cfg.pixels =>
          /\ trainer = "none"
          /\ optimizers = EmptyDict
          /\ (last = "__init__" => raised = "NotImplementedError"))
  /\ [](last \in UnsupportedMethods => raised = "NotImplementedError")
  /\ [][(last' \in UnsupportedMethods /\ last' # last) =>
          UNCHANGED <<params, grad, adam, optimizers, world_list,
                      actor_list, value_list, trainer>>]_vars

C7_Witness ==
  /\ last = "save_model"
  /\ raised = "NotImplementedError"
  /\ nTrain > 0
  /\ adam # {}

\* C10: with use_fixed_target, TargetValueModel is in the critic
\* optimizer's group and in the clipped critic list, never has a gradient,
\* and keeps the weights of the last hard copy (update_target or
\* construction) across train_batch.
C10_TargetOnlyByCopy ==
  (trainer = "ok" /\ cfg.use_fixed_target) =>
    /\ "TargetValueModel" \in optimizers["value"]
    /\ "TargetValueModel" \in get_parameters(value_list)
    /\ grad["TargetValueModel"] = NoGrad
    /\ params["TargetValueModel"] = targetAtSync

C10_Witness ==
  /\ cfg.use_fixed_target
  /\ pc = "idle"
  /\ last = "train_batch"
  /\ nTrain = 2
  /\ params["ValueModel"] # params["TargetValueModel"]
  /\ params["TargetValueModel"] = targetAtSync

\* C5, as stated: the balanced KL value at balance 0.5 equals the plain
\* value, and at balance 0.9 it differs from the plain value.
C5_AgreeOnlyAtHalf ==
  {NoBalance, 5, 9} \subseteq DOMAIN kl_out =>
    /\ NumEq(kl_out[5].num, kl_out[NoBalance].num)
    /\ ~NumEq(kl_out[9].num, kl_out[NoBalance].num)

\* C5, amended: on the same prior and posterior sequences the balanced KL
\* value equals the plain value at every balance, 0.5 and 0.9 alike.
C5_BalancedEqualsPlain ==
  NoBalance \in DOMAIN kl_out =>
    \A b \in DOMAIN kl_out : NumEq(kl_out[b].num, kl_out[NoBalance].num)

C5_Witness ==
  /\ {NoBalance, 5, 9} \subseteq DOMAIN kl_out
  /\ NumEq(kl_out[9].num, kl_out[NoBalance].num)
  /\ ~NumEq(kl_out[NoBalance].num, NumZero)
  /\ Len(kl_in.prior) = 2
  /\ kl_in.prior[1].e # kl_in.posterior[1].e
  /\ kl_out[9].w = [g \in {"prior", "post"} |-> IF g = "prior" THEN 9 ELSE 1]
  /\ kl_out[NoBalance].w = [g \in {"prior", "post"} |-> 10]

\* 0.5 * d * (t - p)^2 summed over the tensors x, d in halves: times 4.
SumHalfSq(x) ==
  TensorSum(x.H, x.N,
            [h \in 1..x.H |-> [n \in 1..x.N |->
               x.disc[h][n] * (x.target[h][n] - x.pred[h][n])
                 * (x.target[h][n] - x.pred[h][n])]])

\* 0.5 * (d * (t - p))^2 summed over the tensors x, d in halves: times 8.
SumHalfSqOfScaled(x) ==
  TensorSum(x.H, x.N,
            [h \in 1..x.H |-> [n \in 1..x.N |->
               (x.disc[h][n] * (x.target[h][n] - x.pred[h][n]))
                 * (x.disc[h][n] * (x.target[h][n] - x.pred[h][n]))]])

SeedInv ==
  /\ n_add = n_step
  /\ n_reset = ep + (IF sd_pc = "while" THEN 1 ELSE 0)
  /\ n_reset <= seed_episodes
  /\ n_step > 0 =>
       /\ last_add.s = last_step.obs
       /\ last_add.a = last_step.a
       /\ last_add.r = last_step.r
       /\ last_add.done = last_step.done
       /\ last_add.next = (IF last_step.done THEN <<last_step.ns>> ELSE <<>>)
  /\ sd_pc = "returned" =>
       /\ ep = seed_episodes
       /\ n_reset = seed_episodes
       /\ n_done = seed_episodes

\* C9: against an environment whose episodes end, collect_seed_episodes
\* returns, after exactly seed_episodes episodes with one env.reset each;
\* buffer.add is called once per env.step, with the observation the action
\* was taken from, and with the next observation exactly when the step
\* reported done.
C9_SeedEpisodes == []SeedInv /\ <>(sd_pc = "returned")

C9_Witness ==
  /\ sd_pc = "returned"
  /\ seed_episodes = 2
  /\ n_step = 4
  /\ n_add = 4
  /\ last_add.next = <<1>>
  /\ last_add.s = 1
====
